---- MODULE Spec2Model ----
(***************************************************************************)
(* Model of util/road_graph.py: Edge, VertexOutgoingEdges and RoadGraph.   *)
(*                                                                         *)
(* Python objects live in a heap of three kinds of object, each kind a     *)
(* sequence indexed by the object's identity:                              *)
(*   RoadGraph i            graph[i] (the dict self.graph),                *)
(*                          fun[i]   (self._edge_weight_fun)               *)
(*   VertexOutgoingEdges i  road_graph[i] (self.road_graph),               *)
(*                          edges[i]      (the dict self.edges)            *)
(*   Edge i                 attrs[i] (the instance attributes: a function  *)
(*                          whose domain is the set of attributes present, *)
(*                          so hasattr(e, a) is  a \in DOMAIN attrs[i])    *)
(* origin[i] records how RoadGraph i came to be: the graph whose reverse() *)
(* returned it, or 0 for one the caller constructed.  last is the record   *)
(* of the call just made and nops counts the calls.                        *)
(* A dict is a function whose domain is its key set, together with the     *)
(* sequence of its keys in insertion order, which is the order iteration   *)
(* follows: gkeys[i] for graph[i] and ekeys[i] for edges[i].  A reference  *)
(* is the index of the object; a reference to None is NoneVal.             *)
(***************************************************************************)
EXTENDS Integers, Sequences, FiniteSets, TLC

VARIABLES graph, gkeys, fun, road_graph, edges, ekeys, attrs, origin, last, nops

heap == <<graph, gkeys, fun, road_graph, edges, ekeys, attrs>>
vars == <<graph, gkeys, fun, road_graph, edges, ekeys, attrs, origin, last, nops>>

----------------------------------------------------------------------------
(* Bounds of the model. *)
MaxOps == 2
MaxGraphs == 3
MaxContainers == 6
MaxEdges == 2

VertexOrder == <<"A", "B">>
Vertices == {VertexOrder[i] : i \in 1..Len(VertexOrder)}
Lengths == {1, 2}
Times == {3}
Weights == {4, 5}

(* The reference None. *)
NoneVal == 0

(* Values of the argument fun of set_edge_weight_function: None (absent),  *)
(* the two mode names, a callable (lambda e: 10 * e.length) and an         *)
(* unrecognised string.                                                    *)
FunArgs == {"None", "length", "time", "callable", "distance"}

(* pop(key) without a default, and pop(key, None) *)
PopDefaults == {"nodefault", "None"}

(* The dict given to update() on a container: two keys in either order,    *)
(* each with a weight.                                                     *)
VUpdateItems ==
    {<<<<k1, v1>>, <<k2, v2>>>> : <<k1, k2, v1, v2>> \in
        {q \in Vertices \X Vertices \X Weights \X Weights : q[1] # q[2] /\ q[3] < q[4]}}

----------------------------------------------------------------------------
(* dict operations *)
EmptyDict == [x \in {} |-> 0]
DictSet(d, k, v) == [x \in (DOMAIN d) \cup {k} |-> IF x = k THEN v ELSE d[x]]
DictDel(d, k) == [x \in (DOMAIN d) \ {k} |-> d[x]]

(* the keys in insertion order: a new key goes last, a key assigned again  *)
(* keeps its place, a deleted key leaves                                   *)
KeyAdd(ks, k) == IF \E i \in 1..Len(ks) : ks[i] = k THEN ks ELSE Append(ks, k)
KeyDel(ks, k) == SelectSeq(ks, LAMBDA x : x # k)

(* The result of a call: a returned value or a raised exception. *)
Ok(v) == [err |-> "none", ret |-> v]
Raise(e) == [err |-> e, ret |-> 0]

GraphIds == 1..Len(graph)
ContainerIds == 1..Len(road_graph)
EdgeIds == 1..Len(attrs)

(* Edge.__init__(length) *)
Edge(length) == [a \in {"length"} |-> length]

(* The attributes of the object a reference denotes; None has none of      *)
(* length, time, weight.                                                   *)
Obj(at, ref) == IF ref = NoneVal THEN EmptyDict ELSE at[ref]

GetAttr(o, a) == IF a \in DOMAIN o THEN Ok(o[a]) ELSE Raise("AttributeError")

(* The function set_edge_weight_function installs for an argument.         *)
(*   None, 'length':  lambda e: e.weight if hasattr(e,'weight') else e.length *)
(*   'time':          lambda e: e.weight if hasattr(e,'weight') else e.time   *)
(*   callable:        the callable itself                                  *)
ModeOf(arg) ==
    IF arg = "None" \/ arg = "length" THEN "length"
    ELSE IF arg = "time" THEN "time"
    ELSE "callable"

(* Variant with a fault: 'time' mode falls back to the length *)
EdgeWeightFunTimeUsesLength(mode, o) ==
    IF mode = "length" \/ mode = "time"
    THEN IF "weight" \in DOMAIN o THEN Ok(o["weight"]) ELSE GetAttr(o, "length")
    ELSE IF "length" \in DOMAIN o THEN Ok(10 * o["length"])
         ELSE Raise("AttributeError")

(* self.road_graph._edge_weight_fun(e), for the object o that e denotes *)
EdgeWeightFun(mode, o) ==
    IF mode = "length"
    THEN IF "weight" \in DOMAIN o THEN Ok(o["weight"]) ELSE GetAttr(o, "length")
    ELSE IF mode = "time"
    THEN IF "weight" \in DOMAIN o THEN Ok(o["weight"]) ELSE GetAttr(o, "time")
    ELSE IF "length" \in DOMAIN o THEN Ok(10 * o["length"])
         ELSE Raise("AttributeError")

(* Variant with a fault: a missing key reads as 0, as dict.get(key, 0) *)
VGetItemInDefault(fn, rg, ed, at, c, key) ==
    IF key \notin DOMAIN ed[c] THEN Ok(0)
    ELSE EdgeWeightFun(fn[rg[c]], Obj(at, ed[c][key]))

(* VertexOutgoingEdges.__getitem__(key) on container c, in the heap with   *)
(* weight functions fn, back-references rg, entries ed and attributes at:  *)
(*   e = self.edges[key]; return self.road_graph._edge_weight_fun(e)       *)
VGetItemIn(fn, rg, ed, at, c, key) ==
    IF key \notin DOMAIN ed[c] THEN Raise("KeyError")
    ELSE EdgeWeightFun(fn[rg[c]], Obj(at, ed[c][key]))

(* the same in the current heap *)
VGetItem(c, key) == VGetItemIn(fun, road_graph, edges, attrs, c, key)

(* VertexOutgoingEdges.get_edge(key) on container c *)
VGetEdge(c, key) ==
    IF key \notin DOMAIN edges[c] THEN Raise("KeyError") ELSE Ok(edges[c][key])

(* RoadGraph.__getitem__(key) on graph g *)
GGetItem(g, key) ==
    IF key \notin DOMAIN graph[g] THEN Raise("KeyError") ELSE Ok(graph[g][key])

(* len() of a container and of a graph *)
VLen(c) == Cardinality(DOMAIN edges[c])
GLen(g) == Cardinality(DOMAIN graph[g])

(* VertexOutgoingEdges.__setitem__(key, val) on container c with the Edge  *)
(* attributes at: the attributes after the call and its outcome            *)
(*   if self.edges[key] is None: self.edges[key] = Edge()                  *)
(*   self.edges[key].weight = val                                          *)
(* self.edges[key] raises KeyError for a missing key, and Edge() raises    *)
(* TypeError, its required argument length missing.                        *)
VSetItemIn(at, c, key, val) ==
    IF key \notin DOMAIN edges[c] THEN [attrs |-> at, res |-> Raise("KeyError")]
    ELSE IF edges[c][key] = NoneVal THEN [attrs |-> at, res |-> Raise("TypeError")]
    ELSE [attrs |-> [at EXCEPT ![edges[c][key]] = DictSet(@, "weight", val)],
          res |-> Ok(NoneVal)]

----------------------------------------------------------------------------
(* The methods both classes inherit from MutableMapping, which are written *)
(* in terms of __getitem__, __setitem__, __delitem__ and __iter__.         *)

(* popitem() on container c with entries ed in order ek:                   *)
(*   key = next(iter(self))      KeyError when empty                       *)
(*   value = self[key]; del self[key]; return key, value                   *)
VPopItemIn(ed, ek, c) ==
    IF ek[c] = <<>>
    THEN [edges |-> ed, ekeys |-> ek, res |-> Raise("KeyError")]
    ELSE LET key == ek[c][1]
             value == VGetItemIn(fun, road_graph, ed, attrs, c, key)
         IN  IF value.err # "none"
             THEN [edges |-> ed, ekeys |-> ek, res |-> value]
             ELSE [edges |-> [ed EXCEPT ![c] = DictDel(@, key)],
                   ekeys |-> [ek EXCEPT ![c] = KeyDel(@, key)],
                   res |-> Ok(<<key, value.ret>>)]

(* clear() on container c:                                                 *)
(*   try: while True: self.popitem()                                       *)
(*   except KeyError: pass                                                 *)
RECURSIVE VClearIn(_, _, _)
VClearIn(ed, ek, c) ==
    LET p == VPopItemIn(ed, ek, c)
    IN  IF p.res.err = "none" THEN VClearIn(p.edges, p.ekeys, c)
        ELSE IF p.res.err = "KeyError"
        THEN [edges |-> ed, ekeys |-> ek, res |-> Ok(NoneVal)]
        ELSE [edges |-> ed, ekeys |-> ek, res |-> p.res]

(* update(other) on container c, from the pair items[i] on:                *)
(*   for key in other: self[key] = other[key]                              *)
RECURSIVE VUpdateIn(_, _, _, _)
VUpdateIn(at, c, items, i) ==
    IF i > Len(items) THEN [attrs |-> at, res |-> Ok(NoneVal)]
    ELSE LET r == VSetItemIn(at, c, items[i][1], items[i][2])
         IN  IF r.res.err # "none" THEN r
             ELSE VUpdateIn(r.attrs, c, items, i + 1)

(* popitem() on graph g with entries gr in order gk *)
GPopItemIn(gr, gk, g) ==
    IF gk[g] = <<>>
    THEN [graph |-> gr, gkeys |-> gk, res |-> Raise("KeyError")]
    ELSE LET key == gk[g][1]
         IN  [graph |-> [gr EXCEPT ![g] = DictDel(@, key)],
              gkeys |-> [gk EXCEPT ![g] = KeyDel(@, key)],
              res |-> Ok(<<key, gr[g][key]>>)]

(* clear() on graph g *)
RECURSIVE GClearIn(_, _, _)
GClearIn(gr, gk, g) ==
    LET p == GPopItemIn(gr, gk, g)
    IN  IF p.res.err = "none" THEN GClearIn(p.graph, p.gkeys, g)
        ELSE [graph |-> gr, gkeys |-> gk, res |-> Ok(NoneVal)]

(* update(other) on graph g, from the pair items[i] on *)
RECURSIVE GUpdateIn(_, _, _, _, _)
GUpdateIn(gr, gk, g, items, i) ==
    IF i > Len(items) THEN [graph |-> gr, gkeys |-> gk, res |-> Ok(NoneVal)]
    ELSE GUpdateIn([gr EXCEPT ![g] = DictSet(@, items[i][1], items[i][2])],
                   [gk EXCEPT ![g] = KeyAdd(@, items[i][1])], g, items, i + 1)

----------------------------------------------------------------------------
(* The record of the call just made: the operation, its receiver (graph g  *)
(* or container c), its arguments (key k, value v, function argument or    *)
(* default f, the (key, value) pairs given to update) and its outcome.     *)
CallWith(op, g, c, k, v, f, items, res) ==
    [op |-> op, g |-> g, c |-> c, k |-> k, v |-> v, f |-> f, items |-> items,
     ret |-> res.ret, err |-> res.err]
Call(op, g, c, k, v, f, res) == CallWith(op, g, c, k, v, f, <<>>, res)

NoArg == ""
Done(c) == /\ last' = c
           /\ nops' = nops + 1

(* every call but the two that return a new RoadGraph *)
Same == UNCHANGED origin

----------------------------------------------------------------------------
(* Object construction by the caller. *)

(* RoadGraph(): an empty dict and set_edge_weight_function() *)
NewRoadGraph ==
    /\ nops < MaxOps
    /\ Len(graph) < MaxGraphs
    /\ graph' = Append(graph, EmptyDict)
    /\ gkeys' = Append(gkeys, <<>>)
    /\ fun' = Append(fun, ModeOf("None"))
    /\ origin' = Append(origin, 0)
    /\ UNCHANGED <<road_graph, edges, ekeys, attrs>>
    /\ Done(Call("RoadGraph", Len(graph) + 1, 0, NoArg, 0, NoArg, Ok(Len(graph) + 1)))

(* VertexOutgoingEdges(road_graph) *)
NewVertexOutgoingEdges(g) ==
    /\ nops < MaxOps
    /\ Same
    /\ Len(road_graph) < MaxContainers
    /\ road_graph' = Append(road_graph, g)
    /\ edges' = Append(edges, EmptyDict)
    /\ ekeys' = Append(ekeys, <<>>)
    /\ UNCHANGED <<graph, gkeys, fun, attrs>>
    /\ Done(Call("VertexOutgoingEdges", g, Len(road_graph) + 1, NoArg, 0, NoArg,
                 Ok(Len(road_graph) + 1)))

(* Edge(length) *)
NewEdge(length) ==
    /\ nops < MaxOps
    /\ Same
    /\ Len(attrs) < MaxEdges
    /\ attrs' = Append(attrs, Edge(length))
    /\ UNCHANGED <<graph, gkeys, fun, road_graph, edges, ekeys>>
    /\ Done(Call("Edge", 0, 0, NoArg, length, NoArg, Ok(Len(attrs) + 1)))

(* e.time = t, the caller's assignment of the optional attribute *)
SetTime(e, t) ==
    /\ nops < MaxOps
    /\ Same
    /\ attrs' = [attrs EXCEPT ![e] = DictSet(@, "time", t)]
    /\ UNCHANGED <<graph, gkeys, fun, road_graph, edges, ekeys>>
    /\ Done(Call("set_time", 0, 0, NoArg, t, NoArg, Ok(e)))

----------------------------------------------------------------------------
(* VertexOutgoingEdges *)

(* Variant with a fault: a missing key is inserted with a new Edge that    *)
(* carries the weight                                                      *)
VSetItemInserts(c, key, val) ==
    /\ nops < MaxOps
    /\ Same
    /\ IF key \notin DOMAIN edges[c]
       THEN /\ attrs' = Append(attrs, [a \in {"weight"} |-> val])
            /\ edges' = [edges EXCEPT ![c] = DictSet(@, key, Len(attrs) + 1)]
            /\ ekeys' = [ekeys EXCEPT ![c] = KeyAdd(@, key)]
            /\ UNCHANGED <<graph, gkeys, fun, road_graph>>
            /\ Done(Call("vset", 0, c, key, val, NoArg, Ok(0)))
       ELSE IF edges[c][key] = NoneVal
       THEN /\ UNCHANGED heap
            /\ Done(Call("vset", 0, c, key, val, NoArg, Raise("TypeError")))
       ELSE /\ attrs' = [attrs EXCEPT ![edges[c][key]] = DictSet(@, "weight", val)]
            /\ UNCHANGED <<graph, gkeys, fun, road_graph, edges, ekeys>>
            /\ Done(Call("vset", 0, c, key, val, NoArg, Ok(0)))

(* __setitem__(key, val) *)
VSetItem(c, key, val) ==
    /\ nops < MaxOps
    /\ Same
    /\ attrs' = VSetItemIn(attrs, c, key, val).attrs
    /\ UNCHANGED <<graph, gkeys, fun, road_graph, edges, ekeys>>
    /\ Done(Call("vset", 0, c, key, val, NoArg, VSetItemIn(attrs, c, key, val).res))

(* __getitem__(key) *)
VGet(c, key) ==
    /\ nops < MaxOps
    /\ Same
    /\ UNCHANGED heap
    /\ Done(Call("vget", 0, c, key, 0, NoArg, VGetItem(c, key)))

(* __delitem__(key) *)
VDelItem(c, key) ==
    /\ nops < MaxOps
    /\ Same
    /\ IF key \notin DOMAIN edges[c]
       THEN /\ UNCHANGED heap
            /\ Done(Call("vdel", 0, c, key, 0, NoArg, Raise("KeyError")))
       ELSE /\ edges' = [edges EXCEPT ![c] = DictDel(@, key)]
            /\ ekeys' = [ekeys EXCEPT ![c] = KeyDel(@, key)]
            /\ UNCHANGED <<graph, gkeys, fun, road_graph, attrs>>
            /\ Done(Call("vdel", 0, c, key, 0, NoArg, Ok(0)))

(* get_edge(key) *)
GetEdge(c, key) ==
    /\ nops < MaxOps
    /\ Same
    /\ UNCHANGED heap
    /\ Done(Call("get_edge", 0, c, key, 0, NoArg, VGetEdge(c, key)))

(* set_edge(key, value) *)
SetEdge(c, key, value) ==
    /\ nops < MaxOps
    /\ Same
    /\ edges' = [edges EXCEPT ![c] = DictSet(@, key, value)]
    /\ ekeys' = [ekeys EXCEPT ![c] = KeyAdd(@, key)]
    /\ UNCHANGED <<graph, gkeys, fun, road_graph, attrs>>
    /\ Done(Call("set_edge", 0, c, key, value, NoArg, Ok(0)))

(* get(key), inherited: try: return self[key]; except KeyError: return None *)
VGetDefault(c, key) ==
    /\ nops < MaxOps
    /\ Same
    /\ UNCHANGED heap
    /\ Done(Call("vget_default", 0, c, key, 0, NoArg,
                 IF VGetItem(c, key).err = "KeyError" THEN Ok(NoneVal) ELSE VGetItem(c, key)))

(* pop(key) and pop(key, None), inherited:                                 *)
(*   try: value = self[key]                                                *)
(*   except KeyError: raise, or return the default when one is given       *)
(*   else: del self[key]; return value                                     *)
VPop(c, key, d) ==
    /\ nops < MaxOps
    /\ Same
    /\ LET value == VGetItem(c, key)
       IN  IF value.err = "none"
           THEN /\ edges' = [edges EXCEPT ![c] = DictDel(@, key)]
                /\ ekeys' = [ekeys EXCEPT ![c] = KeyDel(@, key)]
                /\ UNCHANGED <<graph, gkeys, fun, road_graph, attrs>>
                /\ Done(Call("vpop", 0, c, key, 0, d, value))
           ELSE /\ UNCHANGED heap
                /\ Done(Call("vpop", 0, c, key, 0, d,
                             IF value.err = "KeyError" /\ d = "None"
                             THEN Ok(NoneVal) ELSE value))

(* popitem(), inherited *)
VPopItem(c) ==
    /\ nops < MaxOps
    /\ Same
    /\ edges' = VPopItemIn(edges, ekeys, c).edges
    /\ ekeys' = VPopItemIn(edges, ekeys, c).ekeys
    /\ UNCHANGED <<graph, gkeys, fun, road_graph, attrs>>
    /\ Done(Call("vpopitem", 0, c, NoArg, 0, NoArg, VPopItemIn(edges, ekeys, c).res))

(* clear(), inherited *)
VClear(c) ==
    /\ nops < MaxOps
    /\ Same
    /\ edges' = VClearIn(edges, ekeys, c).edges
    /\ ekeys' = VClearIn(edges, ekeys, c).ekeys
    /\ UNCHANGED <<graph, gkeys, fun, road_graph, attrs>>
    /\ Done(Call("vclear", 0, c, NoArg, 0, NoArg, VClearIn(edges, ekeys, c).res))

(* update(other), inherited, other a dict given as its (key, value) pairs  *)
VUpdate(c, items) ==
    /\ nops < MaxOps
    /\ Same
    /\ attrs' = VUpdateIn(attrs, c, items, 1).attrs
    /\ UNCHANGED <<graph, gkeys, fun, road_graph, edges, ekeys>>
    /\ Done(CallWith("vupdate", 0, c, NoArg, 0, NoArg, items,
                     VUpdateIn(attrs, c, items, 1).res))

(* setdefault(key, default), inherited:                                    *)
(*   try: return self[key]                                                 *)
(*   except KeyError: self[key] = default                                  *)
(*   return default                                                        *)
VSetDefault(c, key, default) ==
    /\ nops < MaxOps
    /\ Same
    /\ LET value == VGetItem(c, key)
           set == VSetItemIn(attrs, c, key, default)
       IN  IF value.err = "KeyError"
           THEN /\ attrs' = set.attrs
                /\ UNCHANGED <<graph, gkeys, fun, road_graph, edges, ekeys>>
                /\ Done(Call("vsetdefault", 0, c, key, default, NoArg,
                             IF set.res.err = "none" THEN Ok(default) ELSE set.res))
           ELSE /\ UNCHANGED heap
                /\ Done(Call("vsetdefault", 0, c, key, default, NoArg, value))

----------------------------------------------------------------------------
(* RoadGraph *)

(* __setitem__(key, val) *)
GSetItem(g, key, val) ==
    /\ nops < MaxOps
    /\ Same
    /\ graph' = [graph EXCEPT ![g] = DictSet(@, key, val)]
    /\ gkeys' = [gkeys EXCEPT ![g] = KeyAdd(@, key)]
    /\ UNCHANGED <<fun, road_graph, edges, ekeys, attrs>>
    /\ Done(Call("gset", g, 0, key, val, NoArg, Ok(0)))

(* __getitem__(key) *)
GGet(g, key) ==
    /\ nops < MaxOps
    /\ Same
    /\ UNCHANGED heap
    /\ Done(Call("gget", g, 0, key, 0, NoArg, GGetItem(g, key)))

(* __delitem__(key) *)
GDelItem(g, key) ==
    /\ nops < MaxOps
    /\ Same
    /\ IF key \notin DOMAIN graph[g]
       THEN /\ UNCHANGED heap
            /\ Done(Call("gdel", g, 0, key, 0, NoArg, Raise("KeyError")))
       ELSE /\ graph' = [graph EXCEPT ![g] = DictDel(@, key)]
            /\ gkeys' = [gkeys EXCEPT ![g] = KeyDel(@, key)]
            /\ UNCHANGED <<fun, road_graph, edges, ekeys, attrs>>
            /\ Done(Call("gdel", g, 0, key, 0, NoArg, Ok(0)))

(* get(key), inherited *)
GGetDefault(g, key) ==
    /\ nops < MaxOps
    /\ Same
    /\ UNCHANGED heap
    /\ Done(Call("gget_default", g, 0, key, 0, NoArg,
                 IF GGetItem(g, key).err = "KeyError" THEN Ok(NoneVal) ELSE GGetItem(g, key)))

(* pop(key) and pop(key, None), inherited *)
GPop(g, key, d) ==
    /\ nops < MaxOps
    /\ Same
    /\ LET value == GGetItem(g, key)
       IN  IF value.err = "none"
           THEN /\ graph' = [graph EXCEPT ![g] = DictDel(@, key)]
                /\ gkeys' = [gkeys EXCEPT ![g] = KeyDel(@, key)]
                /\ UNCHANGED <<fun, road_graph, edges, ekeys, attrs>>
                /\ Done(Call("gpop", g, 0, key, 0, d, value))
           ELSE /\ UNCHANGED heap
                /\ Done(Call("gpop", g, 0, key, 0, d,
                             IF d = "None" THEN Ok(NoneVal) ELSE value))

(* popitem(), inherited *)
GPopItem(g) ==
    /\ nops < MaxOps
    /\ Same
    /\ graph' = GPopItemIn(graph, gkeys, g).graph
    /\ gkeys' = GPopItemIn(graph, gkeys, g).gkeys
    /\ UNCHANGED <<fun, road_graph, edges, ekeys, attrs>>
    /\ Done(Call("gpopitem", g, 0, NoArg, 0, NoArg, GPopItemIn(graph, gkeys, g).res))

(* clear(), inherited *)
GClear(g) ==
    /\ nops < MaxOps
    /\ Same
    /\ graph' = GClearIn(graph, gkeys, g).graph
    /\ gkeys' = GClearIn(graph, gkeys, g).gkeys
    /\ UNCHANGED <<fun, road_graph, edges, ekeys, attrs>>
    /\ Done(Call("gclear", g, 0, NoArg, 0, NoArg, GClearIn(graph, gkeys, g).res))

(* update(other), inherited, other a dict given as its (key, value) pairs  *)
GUpdate(g, items) ==
    /\ nops < MaxOps
    /\ Same
    /\ graph' = GUpdateIn(graph, gkeys, g, items, 1).graph
    /\ gkeys' = GUpdateIn(graph, gkeys, g, items, 1).gkeys
    /\ UNCHANGED <<fun, road_graph, edges, ekeys, attrs>>
    /\ Done(CallWith("gupdate", g, 0, NoArg, 0, NoArg, items,
                     GUpdateIn(graph, gkeys, g, items, 1).res))

(* setdefault(key, default), inherited *)
GSetDefault(g, key, default) ==
    /\ nops < MaxOps
    /\ Same
    /\ IF key \in DOMAIN graph[g]
       THEN /\ UNCHANGED heap
            /\ Done(Call("gsetdefault", g, 0, key, default, NoArg, GGetItem(g, key)))
       ELSE /\ graph' = [graph EXCEPT ![g] = DictSet(@, key, default)]
            /\ gkeys' = [gkeys EXCEPT ![g] = KeyAdd(@, key)]
            /\ UNCHANGED <<fun, road_graph, edges, ekeys, attrs>>
            /\ Done(Call("gsetdefault", g, 0, key, default, NoArg, Ok(default)))

(* Variants with a fault:                                                  *)
(* - the default installed before the argument is examined                 *)
SetEdgeWeightFunctionResets(g, arg) ==
    /\ nops < MaxOps
    /\ Same
    /\ IF arg \in {"None", "length", "time", "callable"}
       THEN /\ fun' = [fun EXCEPT ![g] = ModeOf(arg)]
            /\ UNCHANGED <<graph, gkeys, road_graph, edges, ekeys, attrs>>
            /\ Done(Call("set_fun", g, 0, NoArg, 0, arg, Ok(0)))
       ELSE /\ fun' = [fun EXCEPT ![g] = ModeOf("None")]
            /\ UNCHANGED <<graph, gkeys, road_graph, edges, ekeys, attrs>>
            /\ Done(Call("set_fun", g, 0, NoArg, 0, arg, Raise("ValueError")))

(* - the mode applied by writing the resolved value into each Edge's       *)
(*   weight instead of being consulted on read                             *)
SetEdgeWeightFunctionRewrites(g, arg) ==
    /\ nops < MaxOps
    /\ Same
    /\ IF arg \in {"None", "length", "time", "callable"}
       THEN /\ fun' = [fun EXCEPT ![g] = ModeOf(arg)]
            /\ attrs' = [e \in EdgeIds |->
                            IF /\ \E c \in ContainerIds : \E k \in DOMAIN edges[c] :
                                     road_graph[c] = g /\ edges[c][k] = e
                               /\ EdgeWeightFun(ModeOf(arg), attrs[e]).err = "none"
                            THEN DictSet(attrs[e], "weight",
                                         EdgeWeightFun(ModeOf(arg), attrs[e]).ret)
                            ELSE attrs[e]]
            /\ UNCHANGED <<graph, gkeys, road_graph, edges, ekeys>>
            /\ Done(Call("set_fun", g, 0, NoArg, 0, arg, Ok(0)))
       ELSE /\ UNCHANGED heap
            /\ Done(Call("set_fun", g, 0, NoArg, 0, arg, Raise("ValueError")))

(* set_edge_weight_function(fun) *)
SetEdgeWeightFunction(g, arg) ==
    /\ nops < MaxOps
    /\ Same
    /\ IF arg \in {"None", "length", "time", "callable"}
       THEN /\ fun' = [fun EXCEPT ![g] = ModeOf(arg)]
            /\ UNCHANGED <<graph, gkeys, road_graph, edges, ekeys, attrs>>
            /\ Done(Call("set_fun", g, 0, NoArg, 0, arg, Ok(0)))
       ELSE /\ UNCHANGED heap
            /\ Done(Call("set_fun", g, 0, NoArg, 0, arg, Raise("ValueError")))

(* get_edge_weight_function() *)
GetEdgeWeightFunction(g) ==
    /\ nops < MaxOps
    /\ Same
    /\ UNCHANGED heap
    /\ Done(Call("get_fun", g, 0, NoArg, 0, fun[g], Ok(0)))

----------------------------------------------------------------------------
(* reverse() *)

(* On a heap h (a record of the heap variables):                           *)
(* graph r gets, under key to, a new VertexOutgoingEdges(owner)            *)
HNewContainer(h, owner, r, to) ==
    [h EXCEPT !.road_graph = Append(@, owner),
              !.edges = Append(@, EmptyDict),
              !.ekeys = Append(@, <<>>),
              !.graph[r] = DictSet(@, to, Len(h.road_graph) + 1),
              !.gkeys[r] = KeyAdd(@, to)]

(* container c .set_edge(k, e) *)
HSetEdge(h, c, k, e) ==
    [h EXCEPT !.edges[c] = DictSet(@, k, e),
              !.ekeys[c] = KeyAdd(@, k)]

(* Variants of the loop body with a fault, used to show that the           *)
(* properties below depend on it.                                          *)
(* - without the membership test: a fresh container for every pair         *)
ReverseStepAlwaysNew(h, g, r, from, to) ==
    LET h1 == HNewContainer(h, r, r, to)
    IN  HSetEdge(h1, h1.graph[r][to], from, h1.edges[h1.graph[g][from]][to])

(* - moving the arc: the entry is deleted from the original's container    *)
ReverseStepMoves(h, g, r, from, to) ==
    LET h1 == IF to \notin DOMAIN h.graph[r] THEN HNewContainer(h, r, r, to) ELSE h
        h2 == HSetEdge(h1, h1.graph[r][to], from, h1.edges[h1.graph[g][from]][to])
    IN  [h2 EXCEPT !.edges[h1.graph[g][from]] = DictDel(@, to),
                   !.ekeys[h1.graph[g][from]] = KeyDel(@, to)]

(* - the new container wired to the graph being reversed                   *)
ReverseStepWiredToSelf(h, g, r, from, to) ==
    LET h1 == IF to \notin DOMAIN h.graph[r] THEN HNewContainer(h, g, r, to) ELSE h
    IN  HSetEdge(h1, h1.graph[r][to], from, h1.edges[h1.graph[g][from]][to])

(* - the Edge copied instead of reused                                     *)
ReverseStepCopiesEdge(h, g, r, from, to) ==
    LET h1 == IF to \notin DOMAIN h.graph[r] THEN HNewContainer(h, r, r, to) ELSE h
        e == h1.edges[h1.graph[g][from]][to]
    IN  IF e = NoneVal
        THEN HSetEdge(h1, h1.graph[r][to], from, e)
        ELSE HSetEdge([h1 EXCEPT !.attrs = Append(@, h1.attrs[e])],
                      h1.graph[r][to], from, Len(h1.attrs) + 1)

(* The body of the two loops of reverse() for one pair (from_edge,         *)
(* to_edge), on the heap h, for the graph g reversed into the new graph r: *)
(*   if to_edge not in reverse_graph:                                      *)
(*       reverse_graph[to_edge] = VertexOutgoingEdges(reverse_graph)       *)
(*   reverse_graph[to_edge].set_edge(from_edge,                            *)
(*                                   self.graph[from_edge].get_edge(to_edge)) *)
ReverseStep(h, g, r, from, to) ==
    LET h1 == IF to \notin DOMAIN h.graph[r] THEN HNewContainer(h, r, r, to) ELSE h
    IN  HSetEdge(h1, h1.graph[r][to], from, h1.edges[h1.graph[g][from]][to])

(* Variant of the inner loop with a fault: a self-loop (from = to) is      *)
(* skipped.                                                                *)
RECURSIVE ReverseInnerSkipsSelfLoops(_, _, _, _, _, _)
ReverseInnerSkipsSelfLoops(h, g, r, from, tos, j) ==
    IF j > Len(tos) THEN h
    ELSE IF tos[j] = from
    THEN ReverseInnerSkipsSelfLoops(h, g, r, from, tos, j + 1)
    ELSE ReverseInnerSkipsSelfLoops(ReverseStep(h, g, r, from, tos[j]), g, r, from, tos, j + 1)

(* The inner loop, for to_edge in self.graph[from_edge], over the keys     *)
(* tos[j..] of that container in iteration order                           *)
RECURSIVE ReverseInner(_, _, _, _, _, _)
ReverseInner(h, g, r, from, tos, j) ==
    IF j > Len(tos) THEN h
    ELSE ReverseInner(ReverseStep(h, g, r, from, tos[j]), g, r, from, tos, j + 1)

(* The outer loop, for from_edge in self.graph, over the keys froms[i..]   *)
(* of the graph in iteration order                                         *)
RECURSIVE ReverseOuter(_, _, _, _, _)
ReverseOuter(h, g, r, froms, i) ==
    IF i > Len(froms) THEN h
    ELSE ReverseOuter(ReverseInner(h, g, r, froms[i], h.ekeys[h.graph[g][froms[i]]], 1),
                      g, r, froms, i + 1)

(* The heap after g.reverse(): reverse_graph = RoadGraph(), then the loops *)
ReverseHeap(g) ==
    LET r == Len(graph) + 1
        h0 == [graph |-> Append(graph, EmptyDict),
               gkeys |-> Append(gkeys, <<>>),
               fun |-> Append(fun, ModeOf("None")),
               road_graph |-> road_graph,
               edges |-> edges,
               ekeys |-> ekeys,
               attrs |-> attrs]
    IN  ReverseOuter(h0, g, r, gkeys[g], 1)

(* The destinations of the arcs of g: the sources of the reversed graph *)
Dests(g) == UNION {DOMAIN edges[graph[g][s]] : s \in DOMAIN graph[g]}

Reverse(g) ==
    /\ nops < MaxOps
    /\ Len(graph) < MaxGraphs
    /\ Len(road_graph) + Cardinality(Dests(g)) <= MaxContainers
    /\ LET h == ReverseHeap(g)
       IN  /\ graph' = h.graph
           /\ fun' = h.fun
           /\ road_graph' = h.road_graph
           /\ edges' = h.edges
           /\ gkeys' = h.gkeys
           /\ ekeys' = h.ekeys
           /\ attrs' = h.attrs
    /\ origin' = Append(origin, g)
    /\ Done(Call("reverse", g, 0, NoArg, 0, NoArg, Ok(Len(graph) + 1)))

----------------------------------------------------------------------------
(* Initial states: one RoadGraph, in its constructed mode, populated by    *)
(* the caller in the documented way: for each source vertex s of srcs a    *)
(* container VertexOutgoingEdges(g) stored by g[s] = container, and for    *)
(* each arc a fresh Edge(length), the i-th Edge of length i, stored by     *)
(* container.set_edge(dest, edge), the keys inserted in any order.         *)
NumV == Len(VertexOrder)
Idx(v) == CHOOSE i \in 1..NumV : VertexOrder[i] = v
Rank(f, t) == (Idx(f) - 1) * NumV + Idx(t)

(* the orders in which the keys S can have been inserted *)
Orders(S) == {q \in [1..Cardinality(S) -> S] :
                 \A i \in 1..Cardinality(S), j \in 1..Cardinality(S) : q[i] = q[j] => i = j}

InitGraph(srcs, dests, so, do) ==
    LET arcs == {<<s, d>> \in srcs \X Vertices : d \in dests[s]}
        cid(s) == Cardinality({u \in srcs : Idx(u) <= Idx(s)})
        eid(s, d) == Cardinality({a \in arcs : Rank(a[1], a[2]) <= Rank(s, d)})
        ss == CHOOSE q \in [1..Cardinality(srcs) -> srcs] :
                  \A i \in 1..Cardinality(srcs) : cid(q[i]) = i
    IN  /\ graph = <<[s \in srcs |-> cid(s)]>>
        /\ gkeys = <<so>>
        /\ fun = <<ModeOf("None")>>
        /\ road_graph = [i \in 1..Cardinality(srcs) |-> 1]
        /\ edges = [i \in 1..Cardinality(srcs) |->
                       [d \in dests[ss[i]] |-> eid(ss[i], d)]]
        /\ ekeys = [i \in 1..Cardinality(srcs) |-> do[ss[i]]]
        /\ attrs = [i \in 1..Cardinality(arcs) |-> Edge(i)]
        /\ origin = <<0>>

Init ==
    /\ \E srcs \in SUBSET Vertices :
       \E dests \in [Vertices -> SUBSET Vertices] :
          LET n == Cardinality({<<s, d>> \in srcs \X Vertices : d \in dests[s]})
          IN  /\ \A v \in Vertices \ srcs : dests[v] = {}
              /\ n <= MaxEdges
              /\ \E so \in Orders(srcs) :
                 \E do \in [Vertices -> UNION {Orders(D) : D \in SUBSET Vertices}] :
                    /\ \A v \in Vertices : do[v] \in Orders(dests[v])
                    /\ InitGraph(srcs, dests, so, do)
    /\ last = Call("RoadGraph", 1, 0, NoArg, 0, NoArg, Ok(1))
    /\ nops = 0

(* the containers constructed for graph g *)
Wired(g) == {c \in ContainerIds : road_graph[c] = g}

Next ==
    \/ NewRoadGraph
    \/ \E g \in GraphIds : NewVertexOutgoingEdges(g)
    \/ \E l \in Lengths : NewEdge(l)
    \/ \E e \in EdgeIds, t \in Times : SetTime(e, t)
    \/ \E c \in ContainerIds, k \in Vertices, v \in Weights : VSetItem(c, k, v)
    \/ \E c \in ContainerIds, k \in Vertices : VGet(c, k)
    \/ \E c \in ContainerIds, k \in Vertices : VDelItem(c, k)
    \/ \E c \in ContainerIds, k \in Vertices : GetEdge(c, k)
    \/ \E c \in ContainerIds, k \in Vertices, e \in EdgeIds \cup {NoneVal} : SetEdge(c, k, e)
    \/ \E g \in GraphIds, k \in Vertices, c \in ContainerIds : GSetItem(g, k, c)
    \/ \E g \in GraphIds, k \in Vertices : GGet(g, k)
    \/ \E g \in GraphIds, k \in Vertices : GDelItem(g, k)
    \/ \E g \in GraphIds, a \in FunArgs : SetEdgeWeightFunction(g, a)
    \/ \E g \in GraphIds : GetEdgeWeightFunction(g)
    \/ \E g \in GraphIds : Reverse(g)
    \/ \E c \in ContainerIds, k \in Vertices : VGetDefault(c, k)
    \/ \E c \in ContainerIds, k \in Vertices, d \in PopDefaults : VPop(c, k, d)
    \/ \E c \in ContainerIds : VPopItem(c)
    \/ \E c \in ContainerIds : VClear(c)
    \/ \E c \in ContainerIds, items \in VUpdateItems : VUpdate(c, items)
    \/ \E c \in ContainerIds, k \in Vertices, v \in Weights : VSetDefault(c, k, v)
    \/ \E g \in GraphIds, k \in Vertices : GGetDefault(g, k)
    \/ \E g \in GraphIds, k \in Vertices, d \in PopDefaults : GPop(g, k, d)
    \/ \E g \in GraphIds : GPopItem(g)
    \/ \E g \in GraphIds : GClear(g)
    \/ \E g \in GraphIds : \E c \in Wired(g) :
       \E k1 \in Vertices : \E k2 \in Vertices \ {k1} :
          GUpdate(g, <<<<k1, c>>, <<k2, c>>>>)
    \/ \E g \in GraphIds, k \in Vertices : \E c \in Wired(g) : GSetDefault(g, k, c)

Spec == Init /\ [][Next]_vars

TypeOK ==
    /\ Len(graph) = Len(fun)
    /\ Len(graph) = Len(origin)
    /\ Len(road_graph) = Len(edges)
    /\ Len(gkeys) = Len(graph)
    /\ Len(ekeys) = Len(edges)
    /\ \A g \in GraphIds : /\ DOMAIN graph[g] = {gkeys[g][i] : i \in 1..Len(gkeys[g])}
                           /\ Len(gkeys[g]) = Cardinality(DOMAIN graph[g])
    /\ \A c \in ContainerIds : /\ DOMAIN edges[c] = {ekeys[c][i] : i \in 1..Len(ekeys[c])}
                               /\ Len(ekeys[c]) = Cardinality(DOMAIN edges[c])
    /\ \A g \in GraphIds : DOMAIN graph[g] \subseteq Vertices
                           /\ \A k \in DOMAIN graph[g] : graph[g][k] \in ContainerIds
    /\ \A c \in ContainerIds : /\ road_graph[c] \in GraphIds
                               /\ DOMAIN edges[c] \subseteq Vertices
                               /\ \A k \in DOMAIN edges[c] : edges[c][k] \in EdgeIds \cup {NoneVal}

----------------------------------------------------------------------------
(* Observations used by the properties. *)

(* The arcs of graph g as (source, destination, edge) triples, in the heap *)
(* with graph dicts gr and container dicts ed, and in the current heap     *)
TriplesIn(gr, ed, g) ==
    {<<q[1], q[2], ed[gr[g][q[1]]][q[2]]>> :
        q \in {p \in (DOMAIN gr[g]) \X Vertices : p[2] \in DOMAIN ed[gr[g][p[1]]]}}
Triples(g) == TriplesIn(graph, edges, g)

(* sum(len(g[v]) for v in g), over the sources gkeys[g][i..] *)
RECURSIVE SumSizesFrom(_, _)
SumSizesFrom(g, i) ==
    IF i > Len(gkeys[g]) THEN 0
    ELSE VLen(graph[g][gkeys[g][i]]) + SumSizesFrom(g, i + 1)
SumSizes(g) == SumSizesFrom(g, 1)

(* graph g has an entry (s, d) holding e *)
HasArc(g, s, d, e) ==
    /\ s \in DOMAIN graph[g]
    /\ d \in DOMAIN edges[graph[g][s]]
    /\ edges[graph[g][s]][d] = e

Refs == EdgeIds \cup {NoneVal}

----------------------------------------------------------------------------
(* C1: when reverse() has just returned R for G, R holds (dest, src) -> E  *)
(* exactly when G holds (src, dest) -> E; the sizes of the containers of R *)
(* add up to those of G; every source key of R is a destination of G.      *)
C1_ReverseFlipsArcs ==
    last.op = "reverse" =>
        LET g == last.g
            r == last.ret
        IN  /\ \A s \in Vertices, d \in Vertices, e \in Refs :
                   HasArc(r, d, s, e) <=> HasArc(g, s, d, e)
            /\ SumSizes(r) = SumSizes(g)
            /\ DOMAIN graph[r] \subseteq Dests(g)

(* reverse() of a graph in which two sources have an arc to the same       *)
(* destination, one of them not a destination itself                       *)
C1_Witness ==
    /\ last.op = "reverse"
    /\ \E s1 \in DOMAIN graph[last.g], s2 \in DOMAIN graph[last.g] :
          /\ s1 # s2
          /\ \E d \in Vertices : /\ d \in DOMAIN edges[graph[last.g][s1]]
                                 /\ d \in DOMAIN edges[graph[last.g][s2]]
          /\ s1 \notin Dests(last.g)
          /\ s1 \notin DOMAIN graph[last.ret]

(* C2: when reverse() is called on the graph the previous call of          *)
(* reverse() returned, the result has the same (source, destination, edge) *)
(* triples as the graph first reversed.                                    *)
C2_ReverseTwice ==
    [][(last.op = "reverse" /\ last'.op = "reverse" /\ last'.g = last.ret)
          => TriplesIn(graph', edges', last'.ret) = TriplesIn(graph', edges', last.g)]_vars

(* the second reverse() of a graph with arcs, of which one source has no   *)
(* outgoing edge and so is no source of the result                         *)
C2_Witness ==
    /\ last.op = "reverse"
    /\ origin[last.g] # 0
    /\ origin[origin[last.g]] = 0
    /\ Triples(last.ret) # {}
    /\ Triples(last.ret) = Triples(origin[last.g])
    /\ \E s \in DOMAIN graph[origin[last.g]] :
          /\ edges[graph[origin[last.g]][s]] = EmptyDict
          /\ s \notin DOMAIN graph[last.ret]

(* C3: reverse() leaves the graph it is called on as it was: its source    *)
(* keys and containers, the entries and back-reference of each of its      *)
(* containers, every Edge's attributes and its weight function; and the    *)
(* graph returned is a new one.                                            *)
C3_ReverseFrame ==
    [][last'.op = "reverse" =>
          LET g == last'.g
          IN  /\ graph'[g] = graph[g]
              /\ fun'[g] = fun[g]
              /\ \A s \in DOMAIN graph[g] :
                    /\ edges'[graph[g][s]] = edges[graph[g][s]]
                    /\ road_graph'[graph[g][s]] = road_graph[graph[g][s]]
              /\ \A e \in EdgeIds : attrs'[e] = attrs[e]
              /\ last'.ret # g
              /\ last'.ret \notin GraphIds
              /\ last'.ret \in 1..Len(graph')]_vars

(* reverse() of a graph with arcs in a mode other than the default *)
C3_Witness ==
    /\ last.op = "reverse"
    /\ Triples(last.g) # {}
    /\ fun[last.g] = "time"
    /\ last.ret # last.g

----------------------------------------------------------------------------
(* The documented resolution of a weight for an Edge with attributes o:    *)
(* the weight override when present, else the length (mode "length", also  *)
(* the default) or the time (mode "time"); a failure when the attribute    *)
(* needed is absent.                                                       *)
Documented(mode, o) ==
    IF "weight" \in DOMAIN o THEN Ok(o["weight"])
    ELSE IF mode = "time"
         THEN (IF "time" \in DOMAIN o THEN Ok(o["time"]) ELSE Raise("AttributeError"))
         ELSE (IF "length" \in DOMAIN o THEN Ok(o["length"]) ELSE Raise("AttributeError"))

NamedMode(arg) == IF arg = "time" THEN "time" ELSE "length"

(* C4: the graph reverse() returns resolves weights in the default mode    *)
(* whatever the mode of the original, and each of its containers refers    *)
(* back to it; reconfiguring the original right after does not change a    *)
(* weighted read through the returned graph.                               *)
C4_ReverseDefaultMode ==
    [][/\ last'.op = "reverse" =>
             LET r == last'.ret
             IN  \A d \in DOMAIN graph'[r] :
                    /\ road_graph'[graph'[r][d]] = r
                    /\ \A s \in DOMAIN edges'[graph'[r][d]] :
                          VGetItemIn(fun', road_graph', edges', attrs', graph'[r][d], s)
                              = Documented("length", Obj(attrs', edges'[graph'[r][d]][s]))
       /\ (last.op = "reverse" /\ last'.op = "set_fun" /\ last'.g = last.g) =>
             \A d \in DOMAIN graph[last.ret] : \A s \in DOMAIN edges[graph[last.ret][d]] :
                 VGetItemIn(fun', road_graph', edges', attrs', graph[last.ret][d], s)
                     = VGetItem(graph[last.ret][d], s)]_vars

(* reverse() of a graph in "time" mode: the same Edge, without a time,     *)
(* fails to resolve through the original and resolves to its length        *)
(* through the returned graph                                              *)
C4_Witness ==
    /\ last.op = "reverse"
    /\ fun[last.g] = "time"
    /\ \E s \in DOMAIN graph[last.g] : \E d \in DOMAIN edges[graph[last.g][s]] :
          /\ edges[graph[last.g][s]][d] # NoneVal
          /\ VGetItem(graph[last.g][s], d).err = "AttributeError"
          /\ VGetItem(graph[last.ret][d], s)
                = Ok(attrs[edges[graph[last.g][s]][d]]["length"])

(* C5: a weighted read through a container of a graph in mode "length" or  *)
(* "time" returns the documented resolution of the stored Edge; get(dest)  *)
(* returns that read; a new graph is in mode "length"; and after the mode  *)
(* is configured by name the reads follow the mode named.                  *)
C5_WeightedRead ==
    /\ \A c \in ContainerIds : \A k \in DOMAIN edges[c] :
          (edges[c][k] # NoneVal /\ fun[road_graph[c]] \in {"length", "time"}) =>
              LET o == attrs[edges[c][k]]
                  r == VGetItem(c, k)
              IN  /\ r = Documented(fun[road_graph[c]], o)
                  /\ "weight" \in DOMAIN o => r = Ok(o["weight"])
                  /\ ("weight" \notin DOMAIN o /\ fun[road_graph[c]] = "length")
                        => r = Ok(o["length"])
                  /\ ("weight" \notin DOMAIN o /\ fun[road_graph[c]] = "time"
                        /\ "time" \in DOMAIN o) => r = Ok(o["time"])
                  /\ ("weight" \notin DOMAIN o /\ fun[road_graph[c]] = "time"
                        /\ "time" \notin DOMAIN o) => r.err # "none"
    /\ last.op = "vget" =>
          [err |-> last.err, ret |-> last.ret] = VGetItem(last.c, last.k)
    /\ last.op = "RoadGraph" => fun[last.ret] = "length"
    /\ (last.op = "set_fun" /\ last.err = "none" /\ last.f \in {"None", "length", "time"}) =>
          \A c \in ContainerIds : \A k \in DOMAIN edges[c] :
              (road_graph[c] = last.g /\ edges[c][k] # NoneVal) =>
                  VGetItem(c, k) = Documented(NamedMode(last.f), attrs[edges[c][k]])

(* an Edge with a time and no weight read in "time" mode, just configured *)
C5_Witness ==
    /\ last.op = "set_fun"
    /\ last.f = "time"
    /\ \E c \in ContainerIds : \E k \in DOMAIN edges[c] :
          /\ road_graph[c] = last.g
          /\ edges[c][k] # NoneVal
          /\ "weight" \notin DOMAIN attrs[edges[c][k]]
          /\ "time" \in DOMAIN attrs[edges[c][k]]
          /\ VGetItem(c, k) = Ok(attrs[edges[c][k]]["time"])
          /\ attrs[edges[c][k]]["time"] # attrs[edges[c][k]]["length"]

(* C6: set_edge_weight_function with an argument that is not None,         *)
(* 'length', 'time' or callable raises ValueError and leaves the heap,     *)
(* the configured function included, and so every weighted read, as it was *)
C6_BadModeRejected ==
    [][(last'.op = "set_fun" /\ last'.f \notin {"None", "length", "time", "callable"}) =>
          /\ last'.err = "ValueError"
          /\ fun' = fun
          /\ UNCHANGED heap
          /\ \A c \in ContainerIds : \A k \in Vertices :
                VGetItemIn(fun', road_graph', edges', attrs', c, k) = VGetItem(c, k)]_vars

(* "distance" rejected on a graph configured to "time" that has an arc *)
C6_Witness ==
    /\ last.op = "set_fun"
    /\ last.f = "distance"
    /\ last.err = "ValueError"
    /\ fun[last.g] = "time"
    /\ Triples(last.g) # {}

(* C7: __setitem__ on a key the container does not hold raises KeyError    *)
(* and changes nothing; a key a container did not hold appears in it only  *)
(* by set_edge on that container and key.                                  *)
C7_WeightSetMissingKey ==
    [][/\ (last'.op = "vset" /\ last'.k \notin DOMAIN edges[last'.c]) =>
             /\ last'.err = "KeyError"
             /\ UNCHANGED heap
             /\ Cardinality(DOMAIN edges'[last'.c]) = VLen(last'.c)
       /\ \A c \in ContainerIds : \A k \in Vertices :
             (k \notin DOMAIN edges[c] /\ k \in DOMAIN edges'[c]) =>
                 (last'.op = "set_edge" /\ last'.c = c /\ last'.k = k)]_vars

(* the failed assignment on a container that holds another key *)
C7_Witness ==
    /\ last.op = "vset"
    /\ last.err = "KeyError"
    /\ last.k \notin DOMAIN edges[last.c]
    /\ edges[last.c] # EmptyDict

(* C8: get, get_edge and delete on a container, and get and delete on a    *)
(* graph, with a key that is not present raise KeyError and change         *)
(* nothing; get_edge with a key present returns the stored Edge, and the   *)
(* Edge stored under a key is the one set_edge last stored there: an entry *)
(* appears or changes only by set_edge on that container and key, to the   *)
(* value given.                                                            *)
C8_MissingKeyLookups ==
    [][/\ (last'.op \in {"vget", "get_edge", "vdel"}
              /\ last'.k \notin DOMAIN edges[last'.c]) =>
             (last'.err = "KeyError" /\ UNCHANGED heap)
       /\ (last'.op \in {"gget", "gdel"} /\ last'.k \notin DOMAIN graph[last'.g]) =>
             (last'.err = "KeyError" /\ UNCHANGED heap)
       /\ (last'.op = "get_edge" /\ last'.k \in DOMAIN edges[last'.c]) =>
             (last'.err = "none" /\ last'.ret = edges[last'.c][last'.k])
       /\ \A c \in ContainerIds : \A k \in DOMAIN edges'[c] :
             (k \notin DOMAIN edges[c] \/ edges'[c][k] # edges[c][k]) =>
                 /\ last'.op = "set_edge"
                 /\ last'.c = c
                 /\ last'.k = k
                 /\ edges'[c][k] = last'.v]_vars

(* a weighted read of a key that is absent from a container that holds     *)
(* another key, after an earlier call                                      *)
C8_Witness ==
    /\ last.op = "vget"
    /\ last.err = "KeyError"
    /\ last.k \notin DOMAIN edges[last.c]
    /\ edges[last.c] # EmptyDict
    /\ nops = 2

(* C9: a successful set_edge_weight_function rewrites no stored data; the  *)
(* weighted reads through every container that refers back to the graph    *)
(* follow the new function, and those through other containers are the     *)
(* same as before.                                                         *)
C9_ModeChangeFrame ==
    [][(last'.op = "set_fun" /\ last'.err = "none") =>
          /\ graph' = graph
          /\ road_graph' = road_graph
          /\ edges' = edges
          /\ attrs' = attrs
          /\ \A c \in ContainerIds : \A k \in DOMAIN edges[c] :
                LET after == VGetItemIn(fun', road_graph', edges', attrs', c, k)
                    o == Obj(attrs, edges[c][k])
                IN  IF road_graph[c] # last'.g THEN after = VGetItem(c, k)
                    ELSE IF last'.f = "callable"
                    THEN after = GetAttr([a \in DOMAIN o |-> 10 * o[a]], "length")
                    ELSE after = Documented(NamedMode(last'.f), o)]_vars

(* the mode changed to "time" on a graph whose container, made before the  *)
(* change, holds an Edge with a time and no weight: the read is the time   *)
C9_Witness ==
    /\ last.op = "set_fun"
    /\ last.err = "none"
    /\ last.f = "time"
    /\ last.g = 1
    /\ \E k \in DOMAIN graph[1] : \E d \in DOMAIN edges[graph[1][k]] :
          /\ road_graph[graph[1][k]] = 1
          /\ edges[graph[1][k]][d] # NoneVal
          /\ DOMAIN attrs[edges[graph[1][k]][d]] = {"length", "time"}
          /\ VGetItem(graph[1][k], d) = Ok(attrs[edges[graph[1][k]][d]]["time"])

(* C10: __setitem__ on a key that holds an Edge keeps that Edge in place   *)
(* and sets its weight, so every container holding the same Edge, in a     *)
(* graph in mode "length" or "time", then reads the value; and reverse()   *)
(* stores under (dest, src) the very Edge the original holds under         *)
(* (src, dest), so the read through the returned graph is the weight the   *)
(* Edge carries.                                                           *)
C10_WeightSharedWithReverse ==
    [][/\ (last'.op = "vset" /\ last'.k \in DOMAIN edges[last'.c]
              /\ edges[last'.c][last'.k] # NoneVal) =>
             LET e == edges[last'.c][last'.k]
             IN  /\ last'.err = "none"
                 /\ edges' = edges
                 /\ DOMAIN attrs'[e] = DOMAIN attrs[e] \cup {"weight"}
                 /\ attrs'[e]["weight"] = last'.v
                 /\ \A a \in DOMAIN attrs[e] \ {"weight"} : attrs'[e][a] = attrs[e][a]
                 /\ \A c \in ContainerIds : \A k \in DOMAIN edges[c] :
                       (edges[c][k] = e /\ fun[road_graph[c]] \in {"length", "time"}) =>
                           VGetItemIn(fun', road_graph', edges', attrs', c, k) = Ok(last'.v)
       /\ last'.op = "reverse" =>
             \A s \in DOMAIN graph[last'.g] : \A d \in DOMAIN edges[graph[last'.g][s]] :
                 LET e == edges[graph[last'.g][s]][d]
                     rc == graph'[last'.ret][d]
                 IN  /\ edges'[rc][s] = e
                     /\ (e # NoneVal /\ "weight" \in DOMAIN attrs[e]) =>
                           VGetItemIn(fun', road_graph', edges', attrs', rc, s)
                               = Ok(attrs[e]["weight"])]_vars

(* a weight assigned through a container of a graph that reverse()         *)
(* returned, read back through the original graph                          *)
C10_Witness ==
    /\ last.op = "vset"
    /\ last.err = "none"
    /\ origin[road_graph[last.c]] # 0
    /\ \E d \in DOMAIN graph[road_graph[last.c]] :
          /\ graph[road_graph[last.c]][d] = last.c
          /\ LET g == origin[road_graph[last.c]]
             IN  /\ last.k \in DOMAIN graph[g]
                 /\ d \in DOMAIN edges[graph[g][last.k]]
                 /\ graph[g][last.k] # last.c
                 /\ edges[graph[g][last.k]][d] = edges[last.c][last.k]
                 /\ VGetItem(graph[g][last.k], d) = Ok(last.v)

====
